---- MODULE Spec2Model ----
(***************************************************************************)
(* cargo-workspace-version: src/main.rs.                                   *)
(*                                                                         *)
(* One invocation of the tool (`update V` or `check V`) reads the root     *)
(* Cargo.toml, checks [workspace.package] version, then walks the members  *)
(* array; for each member it reads <member>/Cargo.toml, checks             *)
(* package.version and the inline-table dependencies naming a member,      *)
(* writes the member manifest when something changed and the command is    *)
(* `update`, and finally writes the root manifest.  The file system        *)
(* persists between invocations.                                           *)
(*                                                                         *)
(* Strings that the program inspects character by character (versions)     *)
(* are sequences of one-character strings.  A path is the sequence of its  *)
(* components, as PathBuf collects them.                                   *)
(***************************************************************************)
EXTENDS Integers, Sequences, FiniteSets, TLC

\* Longest members array explored.
MaxMembers == 2

\* Version strings found in manifests, and version arguments given on the
\* command line.
Vers == {<<"1">>, <<"v", "1">>}
NewVers == Vers \cup {<<"v", "v", "1">>}
Cmds == {"update", "check"}

\* Entries of the members array, and dependency names.  A member is a
\* directory; "." is the directory of the root manifest itself.
MemberNames == {".", "a"}
DepKeys == {"a"}

---------------------------------------------------------------------------
(* TOML items.  kind "none": the key is absent; "str": Item::Value holding *)
(* a string; "value": Item::Value holding anything else (integer, boolean, *)
(* array, inline table); "table": Item::Table, with ws = TRUE when it has  *)
(* the entry `workspace = true`.                                           *)

NoItem == [kind |-> "none", s |-> <<>>, ws |-> FALSE]
Str(s) == [kind |-> "str", s |-> s, ws |-> FALSE]
NonStr == [kind |-> "value", s |-> <<>>, ws |-> FALSE]
Table(w) == [kind |-> "table", s |-> <<>>, ws |-> w]

VersionItems == {NoItem, NonStr} \cup {Str(v) : v \in Vers} \cup {Table(w) : w \in BOOLEAN}
\* Inside an inline table every entry is a Value.
InlineItems == {NoItem, NonStr} \cup {Str(v) : v \in Vers}

\* A dependency entry: absent, `a = "1"` (bare), `a = { version = .. }`
\* (inline) or `[dependencies.a]` (table).
NoDep == [kind |-> "absent", version |-> NoItem]
DepEntries ==
    {NoDep}
    \cup {[kind |-> "bare", version |-> Str(v)] : v \in Vers}
    \cup {[kind |-> "inline", version |-> i] : i \in InlineItems}
    \cup {[kind |-> "table", version |-> Str(v)] : v \in Vers}

NoPackage == [present |-> FALSE, version |-> NoItem]
Packages == {NoPackage} \cup {[present |-> TRUE, version |-> i] : i \in VersionItems}

NoDeps == [k \in DepKeys |-> NoDep]

MemberArrays == UNION {[1..n -> MemberNames] : n \in 0..MaxMembers}
NoMembers == [kind |-> "absent", items |-> <<>>]
WsMembers ==
    {NoMembers, [kind |-> "notarray", items |-> <<>>]}
    \cup {[kind |-> "array", items |-> m] : m \in MemberArrays}

\* [workspace]: its package.version item and its members item.
NoWorkspace == [present |-> FALSE, version |-> NoItem, members |-> NoMembers]
Workspaces ==
    {NoWorkspace}
    \cup {[present |-> TRUE, version |-> i, members |-> m] : i \in VersionItems, m \in WsMembers}

\* A parsed manifest.
Doc(w, p, d) == [workspace |-> w, package |-> p, dependencies |-> d]

Range(f) == {f[i] : i \in DOMAIN f}

---------------------------------------------------------------------------
(* Paths *)

RootPath == <<"Cargo.toml">>
inner_path(member) == <<member, "Cargo.toml">>
\* The file a relative path names: "." components name the current directory.
Resolve(path) == SelectSeq(path, LAMBDA c : c # ".")

---------------------------------------------------------------------------
(* Args *)

SubCommand_version(cli) == cli.newver

\* Variant: the leading 'v' is kept
Version_nostrip(cli) == SubCommand_version(cli)

Version(cli) ==
    LET ver == SubCommand_version(cli)
    IN  IF Len(ver) > 0 /\ Head(ver) = "v" THEN Tail(ver) ELSE ver

\* Variant: every command writes
Write_always(cli) == TRUE

Write(cli) == cli.cmd = "update"

Check(cli) == cli.cmd = "check"

\* The file system after cli.maybe_write(path, document).
maybe_write(cli, path, document, fs) ==
    IF Write(cli)
    THEN [p \in DOMAIN fs \cup {Resolve(path)} |->
            IF p = Resolve(path) THEN document ELSE fs[p]]
    ELSE fs

---------------------------------------------------------------------------
(* check_version, is_workspace_true, update_dep_ver *)

\* Variant: a differing string is not reported as a change
check_version_silent(v, cli) ==
    IF v.kind = "str" /\ v.s # Version(cli)
    THEN [changed |-> FALSE, v |-> Str(Version(cli))]
    ELSE [changed |-> FALSE, v |-> v]

\* v is an Item::Value.  The value is replaced in the parsed document
\* whichever the command is; only the write is conditional.
check_version(v, cli) ==
    IF v.kind = "str" /\ v.s # Version(cli)
    THEN [changed |-> TRUE, v |-> Str(Version(cli))]
    ELSE [changed |-> FALSE, v |-> v]

is_workspace_true(tbl) == tbl.ws

\* dep.get_mut("version").unwrap() panics when the inline table has no
\* version entry.
update_dep_ver(dep, cli) ==
    IF dep.version.kind = "none"
    THEN [panic |-> TRUE, changed |-> FALSE, dep |-> dep]
    ELSE LET r == check_version(dep.version, cli)
         IN  [panic |-> FALSE, changed |-> r.changed,
              dep |-> [dep EXCEPT !.version = r.v]]

---------------------------------------------------------------------------
(* The [workspace] section of the root manifest *)

NoWorkspaceSection == "No [workspace] section in top level"
WorkspaceVersionNotString == "version in [workspace.package] wasn't a string"
NoMembersField == "No members in [workspace] section"
MembersNotArray == "members must be an array"

\* match packages.get_mut("version")
workspace_version(version, cli) ==
    CASE version.kind = "none" ->
            [err |-> "", found |-> FALSE, changed |-> FALSE, v |-> version]
      [] version.kind \in {"str", "value"} ->
            LET r == check_version(version, cli)
            IN  [err |-> "", found |-> TRUE, changed |-> r.changed, v |-> r.v]
      [] OTHER ->
            [err |-> WorkspaceVersionNotString, found |-> FALSE, changed |-> FALSE,
             v |-> version]

\* workspace.get("members") ... .as_array()
workspace_members(m) ==
    CASE m.kind = "absent" -> [err |-> NoMembersField, items |-> <<>>]
      [] m.kind = "notarray" -> [err |-> MembersNotArray, items |-> <<>>]
      [] OTHER -> [err |-> "", items |-> m.items]

members_lookup(members) == Range(members)

---------------------------------------------------------------------------
(* One member *)

CantRead == "Can't read"
NoPackageSection == "no [package] section"
NoVersion == "No version"
VersionNotString == "version wasn't a string"

\* Variant: an inheriting member needs no version in the workspace root
inherits_any(version, found_workspace_version) ==
    version.kind = "table" /\ is_workspace_true(version)

\* Some(Item::Table(tbl)) if is_workspace_true(tbl) && found_workspace_version
inherits(version, found_workspace_version) ==
    version.kind = "table" /\ is_workspace_true(version) /\ found_workspace_version

\* match version (the member's package.version)
member_version(version, found_workspace_version, cli) ==
    CASE version.kind = "none" -> [err |-> NoVersion, changed |-> FALSE, v |-> version]
      [] version.kind \in {"str", "value"} ->
            LET r == check_version(version, cli)
            IN  [err |-> "", changed |-> r.changed, v |-> r.v]
      [] inherits(version, found_workspace_version) ->
            [err |-> "", changed |-> FALSE, v |-> version]
      [] OTHER -> [err |-> VersionNotString, changed |-> FALSE, v |-> version]

\* Variant: every dependency is treated as internal
dep_filter_all(key, lookup) == TRUE

\* .filter(|dep| members_lookup.contains(dep.0.get()))
dep_filter(key, lookup) == key \in lookup

\* dep.1.as_inline_table_mut()
as_inline_table(entry) == entry.kind = "inline"

\* The entries update_dep_ver is called on.
Eligible(deps, lookup) ==
    {k \in DOMAIN deps :
        deps[k].kind # "absent" /\ dep_filter(k, lookup) /\ as_inline_table(deps[k])}

\* The [dependencies] loop.
dependencies(deps, lookup, cli) ==
    LET el == Eligible(deps, lookup)
    IN  [panic |-> \E k \in el : update_dep_ver(deps[k], cli).panic,
         changed |-> \E k \in el : update_dep_ver(deps[k], cli).changed,
         deps |-> [k \in DOMAIN deps |->
                     IF k \in el THEN update_dep_ver(deps[k], cli).dep ELSE deps[k]]]

---------------------------------------------------------------------------
(* State *)

VARIABLES
    files,                      \* the file system: resolved path -> manifest
    cli,                        \* Args: cmd and newver
    pc,                         \* "idle", "members" (in the for loop), "done"
    doc,                        \* main's parsed root manifest
    root_updated,
    found_workspace_version,
    members,                    \* the members array
    idx,                        \* position of the for loop in members
    changed,                    \* `changed` of the member processed last
    some_difference_found,
    written,                    \* paths given to fs::write by this run
    exit,                       \* "running", "ok", "differences", "fatal", "panic"
    error,                      \* the message of a fatal error
    before,                     \* the file system when this run started
    prev                        \* newver of the run before, when it was an
                                \* update that ended "ok"; <<>> otherwise

vars == <<files, cli, pc, doc, root_updated, found_workspace_version, members, idx,
          changed, some_difference_found, written, exit, error, before, prev>>

State ==
    [files |-> files, cli |-> cli, pc |-> pc, doc |-> doc,
     root_updated |-> root_updated,
     found_workspace_version |-> found_workspace_version,
     members |-> members, idx |-> idx, changed |-> changed,
     some_difference_found |-> some_difference_found, written |-> written,
     exit |-> exit, error |-> error, before |-> before, prev |-> prev]

Apply(s) ==
    /\ files' = s.files
    /\ cli' = s.cli
    /\ pc' = s.pc
    /\ doc' = s.doc
    /\ root_updated' = s.root_updated
    /\ found_workspace_version' = s.found_workspace_version
    /\ members' = s.members
    /\ idx' = s.idx
    /\ changed' = s.changed
    /\ some_difference_found' = s.some_difference_found
    /\ written' = s.written
    /\ exit' = s.exit
    /\ error' = s.error
    /\ before' = s.before
    /\ prev' = s.prev

\* bail!, or `?` on an Err: main returns the error.
Fatal(s, msg) == [s EXCEPT !.pc = "done", !.exit = "fatal", !.error = msg]
\* unwrap() on None.
Panic(s) == [s EXCEPT !.pc = "done", !.exit = "panic"]

---------------------------------------------------------------------------
(* main *)

\* Variant: the root manifest is written as soon as its version is checked
root_checked_written(s, rv) ==
    [s EXCEPT !.doc.workspace.version = rv.v,
              !.root_updated = rv.changed,
              !.found_workspace_version = rv.found,
              !.files = IF rv.changed
                        THEN maybe_write(s.cli, RootPath,
                                         [s.doc EXCEPT !.workspace.version = rv.v], s.files)
                        ELSE @,
              !.written = IF rv.changed /\ Write(s.cli) THEN @ \cup {RootPath} ELSE @]

\* The outcome rv of `match packages.get_mut("version")` recorded in main's
\* locals; the document is changed in memory only.
root_checked(s, rv) ==
    [s EXCEPT !.doc.workspace.version = rv.v,
              !.root_updated = rv.changed,
              !.found_workspace_version = rv.found]

\* Args::parse() and main up to the for loop: the root manifest is read,
\* [workspace.package] version is checked, the members array is found.
start(s0, c, v) ==
    LET s == [s0 EXCEPT
                !.cli = [cmd |-> c, newver |-> v],
                !.pc = "members",
                !.doc = s0.files[RootPath],
                !.root_updated = FALSE,
                !.found_workspace_version = FALSE,
                !.members = <<>>,
                !.idx = 1,
                !.changed = FALSE,
                !.some_difference_found = FALSE,
                !.written = {},
                !.exit = "running",
                !.error = "",
                !.before = s0.files,
                !.prev = IF s0.pc = "done" /\ Write(s0.cli) /\ s0.exit = "ok"
                         THEN s0.cli.newver ELSE <<>>]
        workspace == s.doc.workspace
        rv == workspace_version(workspace.version, s.cli)
        rm == workspace_members(workspace.members)
    IN  IF ~workspace.present THEN Fatal(s, NoWorkspaceSection)
        ELSE IF rv.err # "" THEN Fatal(s, rv.err)
        ELSE LET t == root_checked(s, rv)
             IN  IF rm.err # "" THEN Fatal(t, rm.err)
                 ELSE [t EXCEPT !.members = rm.items,
                                !.some_difference_found = rv.changed]

\* One iteration of `for member in members`.
member_step(s) ==
    LET member == s.members[s.idx]
        path == inner_path(member)
        inner == s.files[Resolve(path)]
        rv == member_version(inner.package.version, s.found_workspace_version, s.cli)
        rd == dependencies(inner.dependencies, members_lookup(s.members), s.cli)
        ch == rv.changed \/ rd.changed
        inner2 == [inner EXCEPT !.package.version = rv.v, !.dependencies = rd.deps]
    IN  IF Resolve(path) \notin DOMAIN s.files THEN Fatal(s, CantRead)
        ELSE IF ~inner.package.present THEN Fatal(s, NoPackageSection)
        ELSE IF rv.err # "" THEN Fatal(s, rv.err)
        ELSE IF rd.panic THEN Panic([s EXCEPT !.changed = rv.changed])
        ELSE [s EXCEPT
                !.changed = ch,
                !.files = IF ch THEN maybe_write(s.cli, path, inner2, s.files) ELSE @,
                !.written = IF ch /\ Write(s.cli) THEN @ \cup {path} ELSE @,
                !.some_difference_found = @ \/ ch,
                !.idx = @ + 1]

\* After the loop: the root manifest is written, the run ends.
finish(s) ==
    LET t == [s EXCEPT
                !.files = IF s.root_updated
                          THEN maybe_write(s.cli, RootPath, s.doc, s.files) ELSE @,
                !.written = IF s.root_updated /\ Write(s.cli)
                            THEN @ \cup {RootPath} ELSE @,
                !.pc = "done"]
    IN  IF Check(s.cli) /\ s.some_difference_found
        THEN [t EXCEPT !.exit = "differences", !.error = "There were differences"]
        ELSE [t EXCEPT !.exit = "ok"]

\* main from Args::parse() to its return.
RECURSIVE run_to_end(_)
run_to_end(s) ==
    IF s.pc = "done" THEN s
    ELSE IF s.idx <= Len(s.members) THEN run_to_end(member_step(s))
    ELSE run_to_end(finish(s))

main(s0, c, v) == run_to_end(start(s0, c, v))

---------------------------------------------------------------------------
(* Workspaces *)

\* The workspaces explored.  main reads only the root manifest and the
\* manifests of listed members, so the root manifest has a [package] of its
\* own only when "." is listed and a/Cargo.toml exists only when "a" is
\* listed.  The root package is the one with a [dependencies] table (on
\* "a"); a/Cargo.toml has none.
RootDocs ==
    {Doc(w, p, d) : w \in Workspaces, p \in Packages, d \in [DepKeys -> DepEntries]}

MemberDocs == {Doc(NoWorkspace, p, NoDeps) : p \in Packages}

Listed(root) == Range(root.workspace.members.items)

WellFormed(root) ==
    /\ root.package.present => "." \in Listed(root)
    /\ ~root.package.present => root.dependencies = NoDeps

InitFiles ==
    {[p \in {RootPath} |-> root] : root \in {r \in RootDocs : WellFormed(r)}}
    \cup {[p \in {RootPath, inner_path("a")} |->
             IF p = RootPath THEN root ELSE m] :
          root \in {r \in RootDocs : WellFormed(r) /\ "a" \in Listed(r)},
          m \in MemberDocs}

Init ==
    /\ files \in InitFiles
    /\ cli = [cmd |-> "check", newver |-> <<"1">>]
    /\ pc = "idle"
    /\ doc = files[RootPath]
    /\ root_updated = FALSE
    /\ found_workspace_version = FALSE
    /\ members = <<>>
    /\ idx = 1
    /\ changed = FALSE
    /\ some_difference_found = FALSE
    /\ written = {}
    /\ exit = "running"
    /\ error = ""
    /\ before = files
    /\ prev = <<>>

Start ==
    /\ pc \in {"idle", "done"}
    /\ \E c \in Cmds, v \in NewVers : Apply(start(State, c, v))

Member ==
    /\ pc = "members"
    /\ idx <= Len(members)
    /\ Apply(member_step(State))

Finish ==
    /\ pc = "members"
    /\ idx > Len(members)
    /\ Apply(finish(State))

Next == Start \/ Member \/ Finish

Spec == Init /\ [][Next]_vars

---------------------------------------------------------------------------
(* The synchronized version fields of a workspace, read off the stored     *)
(* manifests.                                                              *)

\* The target with at most one leading "v" removed.
Canonical(ver) ==
    IF Len(ver) >= 1 /\ ver[1] = "v" THEN SubSeq(ver, 2, Len(ver)) ELSE ver

Declared(fs) == Listed(fs[RootPath])
MemberFiles(fs) == {Resolve(inner_path(m)) : m \in Declared(fs)} \cap DOMAIN fs
WrittenFiles == {Resolve(p) : p \in written}

\* The root's shared version is a string other than T.
RootDiffers(fs, T) ==
    LET v == fs[RootPath].workspace.version IN v.kind = "str" /\ v.s # T

\* Member manifest f's own version is a string other than T.
PackageDiffers(fs, f, T) ==
    LET v == fs[f].package.version IN v.kind = "str" /\ v.s # T

\* In f, the dependency k names a declared member and is an inline table
\* with a string version.
InternalPin(fs, f, k) ==
    /\ k \in Declared(fs)
    /\ fs[f].dependencies[k].kind = "inline"
    /\ fs[f].dependencies[k].version.kind = "str"

PinDiffers(fs, f, k, T) ==
    InternalPin(fs, f, k) /\ fs[f].dependencies[k].version.s # T

FileDiffers(fs, f, T) ==
    /\ f \in MemberFiles(fs)
    /\ PackageDiffers(fs, f, T) \/ \E k \in DepKeys : PinDiffers(fs, f, k, T)

AnyDiffers(fs, T) ==
    RootDiffers(fs, T) \/ \E f \in MemberFiles(fs) : FileDiffers(fs, f, T)

Ended == pc = "done" /\ exit \in {"ok", "differences"}
Aborted == pc = "done" /\ exit \in {"fatal", "panic"}

\* The manifest of the member the for loop is at, when it can be read and
\* has a [package].
AtMember == idx <= Len(members) /\ Resolve(inner_path(members[idx])) \in DOMAIN files
Current == files[Resolve(inner_path(members[idx]))]

---------------------------------------------------------------------------
(* Claims *)

\* C1: when `update V` has ended without a fatal error, an immediately
\* following `update V` writes no file and leaves every manifest unchanged.
C1_Idempotence ==
    (pc # "idle" /\ Write(cli) /\ prev = cli.newver) =>
        (written = {} /\ files = before)

\* C2: a `check V` run never writes: at every point of the run, also after
\* a mismatch and after a fatal error, no path has been written and every
\* stored manifest is what it was when the run started.
C2_CheckNeverWrites ==
    (pc # "idle" /\ Check(cli)) => (written = {} /\ files = before)

C2_Witness ==
    /\ pc = "done" /\ Check(cli) /\ exit = "differences"
    /\ root_updated /\ changed
    /\ doc # files[RootPath]

C4_UpdatePostcondition ==
    (Ended /\ Write(cli)) =>
        /\ ~AnyDiffers(files, Canonical(cli.newver))
        /\ RootDiffers(before, Canonical(cli.newver)) => RootPath \in WrittenFiles
        /\ \A f \in MemberFiles(before) :
              FileDiffers(before, f, Canonical(cli.newver)) => f \in WrittenFiles

\* C5: for a version X that does not begin with "v", a run with target
\* "v"+X and a run with target X, from the same workspace and with the same
\* command, write the same files, leave the same contents and end with the
\* same signal; only one "v" is removed from the target ("vv1" synchronizes
\* to "v1"), and a stored "v1" is not the same as the target "1".
PlainVers == {<<"1">>, <<"2">>, <<"1", "v">>}
Outcome(s) == [files |-> s.files, written |-> s.written, exit |-> s.exit, error |-> s.error]

C5_PrefixEquivalence ==
    /\ pc \in {"idle", "done"} =>
         \A c \in Cmds, X \in PlainVers :
            Outcome(main(State, c, <<"v">> \o X)) = Outcome(main(State, c, X))
    /\ (Ended /\ Write(cli) /\ cli.newver = <<"v", "v", "1">>
          /\ before[RootPath].workspace.version.kind = "str") =>
         files[RootPath].workspace.version = Str(<<"v", "1">>)
    /\ (Ended /\ Check(cli) /\ cli.newver \in {<<"1">>, <<"v", "1">>}
          /\ before[RootPath].workspace.version = Str(<<"v", "1">>)) =>
         exit = "differences"

C5_Witness ==
    /\ Ended /\ Write(cli) /\ cli.newver = <<"v", "1">>
    /\ RootPath \in written
    /\ before[RootPath].workspace.version = Str(<<"v", "1">>)
    /\ files[RootPath].workspace.version = Str(<<"1">>)

\* C6: a dependency entry whose key is not a declared member, or whose
\* value is not an inline table, is the same in the stored manifest after
\* any step of any run; a file is written only when one of its
\* synchronized fields differed, and the failure signal is given only when
\* one did.
C6_DependencyFiltering ==
    pc # "idle" =>
        /\ \A f \in DOMAIN before, k \in DepKeys :
              (k \notin Declared(before) \/ before[f].dependencies[k].kind # "inline")
                 => files[f].dependencies[k] = before[f].dependencies[k]
        /\ \A p \in written :
              \/ p = RootPath /\ RootDiffers(before, Canonical(cli.newver))
              \/ FileDiffers(before, Resolve(p), Canonical(cli.newver))
        /\ exit = "differences" => AnyDiffers(before, Canonical(cli.newver))

C6_Witness ==
    /\ Ended /\ Write(cli)
    /\ inner_path(".") \in written
    /\ "a" \notin Declared(before)
    /\ before[RootPath].dependencies["a"].kind = "inline"
    /\ before[RootPath].dependencies["a"].version.kind = "str"
    /\ before[RootPath].dependencies["a"].version.s # Canonical(cli.newver)
    /\ files[RootPath].dependencies["a"] = before[RootPath].dependencies["a"]

\* The member the loop is at declares `version.workspace = true` and the
\* root declares no shared version.
MarkerWithoutShared ==
    /\ AtMember
    /\ Current.package.present
    /\ Current.package.version = Table(TRUE)
    /\ before[RootPath].workspace.version.kind = "none"

\* C7 as stated: a member whose version is an inheritance marker, in a
\* workspace that declares no shared version, raises no error.
C7_MarkerIsNoOp ==
    (pc = "done" /\ MarkerWithoutShared) => exit # "fatal"

\* C7 as amended: processing such a member ends the run with the fatal
\* error "version in <file> wasn't a string"; nothing is written, no
\* mismatch is recorded for it, and neither its dependencies nor the
\* remaining members are examined.
C7_MarkerIsFatal ==
    [][(pc = "members" /\ MarkerWithoutShared) =>
          /\ pc' = "done" /\ exit' = "fatal" /\ error' = VersionNotString
          /\ idx' = idx
          /\ files' = files /\ written' = written
          /\ some_difference_found' = some_difference_found]_vars

C7_Witness ==
    /\ pc = "done" /\ MarkerWithoutShared
    /\ exit = "fatal" /\ error = VersionNotString
    /\ Current.dependencies["a"].kind = "inline"

Processed == {inner_path(members[j]) : j \in 1..(idx - 1)}

C9_MissingDepVersionSkipped ==
    (AtMember /\ "a" \in Eligible(Current.dependencies, members_lookup(members))
        /\ Current.dependencies["a"].version.kind = "none")
      => exit # "panic"

\* C10: a run that meets a present version field holding a value that is
\* not a string (root shared version, a member's own version, an internal
\* dependency's version) does not end as if the field were satisfied, and
\* the root is not recorded as declaring a shared version.
NonStringField(fs) ==
    \/ fs[RootPath].workspace.version.kind = "value"
    \/ \E f \in MemberFiles(fs) :
          \/ fs[f].package.version.kind = "value"
          \/ \E k \in DepKeys :
                /\ k \in Declared(fs)
                /\ fs[f].dependencies[k].kind = "inline"
                /\ fs[f].dependencies[k].version.kind = "value"

C10_NonStringIsFatal ==
    /\ (Ended /\ NonStringField(before)) => FALSE
    /\ (pc # "idle" /\ before[RootPath].workspace.version.kind = "value")
          => ~found_workspace_version

====
